---- MODULE Spec2Model ----
(***************************************************************************)
(* A model of the TcpViewer controller of src/main.py: the poll            *)
(* (update_connections), the diff classification (_get_change_type), the   *)
(* filter (_parse_filter, _row_matches_filter, _apply_filter), the column  *)
(* sort (_sort_by_column) and the delayed purge (_remove_highlighting).    *)
(*                                                                         *)
(* Python values are modelled as tagged tuples, so that values of          *)
(* different Python types are never equal: an int n is <<"int", n>>, a str *)
(* is <<"str", s>> with s the sequence of its characters, and None is      *)
(* <<"none">>.  A table row is a 10-tuple of such values.                  *)
(***************************************************************************)
EXTENDS Integers, Sequences, FiniteSets, TLC

----------------------------------------------------------------------------
(* Characters and strings (a string is a sequence of one-character strings) *)

\* The characters the model uses, in code-point order.
Alphabet ==
    << " ", "(", ")", "-", ".",
       "0", "1", "2", "3", "4", "5", "6", "7", "8", "9", ":",
       "A", "B", "C", "D", "E", "F", "G", "H", "I", "J", "K", "L", "M",
       "N", "O", "P", "Q", "R", "S", "T", "U", "V", "W", "X", "Y", "Z", "_",
       "a", "b", "c", "d", "e", "f", "g", "h", "i", "j", "k", "l", "m",
       "n", "o", "p", "q", "r", "s", "t", "u", "v", "w", "x", "y", "z" >>

CharSet == {Alphabet[i] : i \in 1..Len(Alphabet)}

\* ord(c), as the position of c in Alphabet
OrdMap == [c \in CharSet |-> CHOOSE i \in 1..Len(Alphabet) : Alphabet[i] = c]

Ord(c) == OrdMap[c]

\* str.lower() and str.upper() on one character
LowerMap ==
    [c \in CharSet |->
        IF OrdMap[c] >= OrdMap["A"] /\ OrdMap[c] <= OrdMap["Z"]
        THEN Alphabet[OrdMap[c] + (OrdMap["a"] - OrdMap["A"])]
        ELSE c]

UpperMap ==
    [c \in CharSet |->
        IF OrdMap[c] >= OrdMap["a"] /\ OrdMap[c] <= OrdMap["z"]
        THEN Alphabet[OrdMap[c] - (OrdMap["a"] - OrdMap["A"])]
        ELSE c]

\* str.lower()
Lower(s) == [i \in 1..Len(s) |-> LowerMap[s[i]]]

\* str.upper()
Upper(s) == [i \in 1..Len(s) |-> UpperMap[s[i]]]

Digits == <<"0", "1", "2", "3", "4", "5", "6", "7", "8", "9">>

IsDigitChar(c) == \E i \in 1..Len(Digits) : Digits[i] = c

DigitValue(c) == (CHOOSE i \in 1..Len(Digits) : Digits[i] = c) - 1

\* str.isdigit(): non-empty and every character a digit
IsDigit(s) == Len(s) > 0 /\ \A i \in 1..Len(s) : IsDigitChar(s[i])

\* int(s) for a string of digits
RECURSIVE ParseInt(_)
ParseInt(s) ==
    IF Len(s) = 0 THEN 0
    ELSE 10 * ParseInt(SubSeq(s, 1, Len(s) - 1)) + DigitValue(s[Len(s)])

\* str(n) for a non-negative int
RECURSIVE IntToStr(_)
IntToStr(n) ==
    IF n < 10 THEN <<Digits[n + 1]>>
    ELSE IntToStr(n \div 10) \o <<Digits[(n % 10) + 1]>>

\* sub in s
Contains(sub, s) ==
    \E i \in 0..(Len(s) - Len(sub)) : SubSeq(s, i + 1, i + Len(sub)) = sub

\* s.startswith(prefix)
StartsWith(s, prefix) ==
    Len(s) >= Len(prefix) /\ SubSeq(s, 1, Len(prefix)) = prefix

\* s.replace(old, ""), old non-empty: leftmost non-overlapping occurrences
RECURSIVE RemoveAll(_, _)
RemoveAll(s, old) ==
    IF Len(s) < Len(old) THEN s
    ELSE IF SubSeq(s, 1, Len(old)) = old
         THEN RemoveAll(SubSeq(s, Len(old) + 1, Len(s)), old)
         ELSE <<s[1]>> \o RemoveAll(SubSeq(s, 2, Len(s)), old)

IsSpace(c) == c = " "

\* str.strip()
RECURSIVE Strip(_)
Strip(s) ==
    IF Len(s) = 0 THEN s
    ELSE IF IsSpace(s[1]) THEN Strip(SubSeq(s, 2, Len(s)))
    ELSE IF IsSpace(s[Len(s)]) THEN Strip(SubSeq(s, 1, Len(s) - 1))
    ELSE s

\* str.split(): the maximal runs of non-whitespace characters, in order
RECURSIVE SplitFrom(_, _)
SplitFrom(s, word) ==
    IF Len(s) = 0
    THEN IF Len(word) = 0 THEN <<>> ELSE <<word>>
    ELSE IF IsSpace(s[1])
         THEN (IF Len(word) = 0 THEN <<>> ELSE <<word>>)
              \o SplitFrom(SubSeq(s, 2, Len(s)), <<>>)
         ELSE SplitFrom(SubSeq(s, 2, Len(s)), Append(word, s[1]))

Split(s) == SplitFrom(s, <<>>)

\* index of the first ":" of a term that contains one
FirstColon(term) ==
    CHOOSE i \in 1..Len(term) :
        term[i] = ":" /\ \A j \in 1..(i - 1) : term[j] # ":"

\* lexicographic order of strings by code point: a < b
RECURSIVE StrLess(_, _)
StrLess(a, b) ==
    IF Len(b) = 0 THEN FALSE
    ELSE IF Len(a) = 0 THEN TRUE
    ELSE IF a[1] # b[1] THEN Ord(a[1]) < Ord(b[1])
    ELSE StrLess(SubSeq(a, 2, Len(a)), SubSeq(b, 2, Len(b)))

----------------------------------------------------------------------------
(* Python values *)

PyInt(n) == <<"int", n>>
PyStr(s) == <<"str", s>>
PyNone == <<"none">>

IsInt(v) == v[1] = "int"
IsStr(v) == v[1] = "str"
IsNone(v) == v[1] = "none"

NoneText == <<"N", "o", "n", "e">>

\* str(v)
Str(v) ==
    IF IsInt(v) THEN IntToStr(v[2])
    ELSE IF IsStr(v) THEN v[2]
    ELSE NoneText

\* bool(v): falsy are None, 0 and ""
Truthy(v) ==
    IF IsInt(v) THEN v[2] # 0
    ELSE IF IsStr(v) THEN Len(v[2]) > 0
    ELSE FALSE

----------------------------------------------------------------------------
(* String constants of the program *)

DeletedMarker == <<"(", "D", "E", "L", "E", "T", "E", "D", ")">>
DeletedSuffix == <<" ">> \o DeletedMarker
ErrorText == <<"E", "r", "r", "o", "r">>
Dash == <<"-">>
NoneUpper == <<"N", "O", "N", "E">>
GeneralKey == <<"general">>

\* the column names of the table, in column order
Columns ==
    << "Process", "ProcessId", "LocalIP", "LocalPort", "RemoteIP",
       "RemotePort", "Hostname", "Status", "Family", "Type" >>

\* col_indices of _sort_by_column, as 1-based positions of a row tuple
ColIndex(col) == CHOOSE i \in 1..Len(Columns) : Columns[i] = col

NumericColumns == {"ProcessId", "LocalPort", "RemotePort"}

\* column_mapping of _parse_filter: shorthand -> 0-based column index
ColumnMapping ==
    ( <<"n", "a", "m", "e">> :> 0 ) @@
    ( <<"p", "i", "d">> :> 1 ) @@
    ( <<"l", "i", "p">> :> 2 ) @@
    ( <<"l", "p", "o", "r", "t">> :> 3 ) @@
    ( <<"r", "i", "p">> :> 4 ) @@
    ( <<"r", "p", "o", "r", "t">> :> 5 ) @@
    ( <<"h", "o", "s", "t">> :> 6 ) @@
    ( <<"s", "t", "a", "t", "u", "s">> :> 7 ) @@
    ( <<"f", "a", "m", "i", "l", "y">> :> 8 ) @@
    ( <<"t", "y", "p", "e">> :> 9 )

\* the addresses _resolve_hostname answers "" for without a lookup
NoLookupIPs ==
    { <<>>,
      <<"0", ".", "0", ".", "0", ".", "0">>,
      <<"1", "2", "7", ".", "0", ".", "0", ".", "1">>,
      <<":", ":", "1">>,
      <<":", ":">>,
      <<"l", "o", "c", "a", "l", "h", "o", "s", "t">> }

PrivatePrefixes ==
    { <<"1", "9", "2", ".", "1", "6", "8", ".">>,
      <<"1", "0", ".">>,
      <<"1", "7", "2", ".">>,
      <<"1", "6", "9", ".", "2", "5", "4", ".">> }

\* socket.AddressFamily(code).name; an unknown code raises ValueError
FamilyNames ==
    ( 2 :> <<"A", "F", "_", "I", "N", "E", "T">> ) @@
    ( 10 :> <<"A", "F", "_", "I", "N", "E", "T", "6">> )

\* socket.SocketKind(code).name; an unknown code raises ValueError
SocketKindNames ==
    ( 1 :> <<"S", "O", "C", "K", "_", "S", "T", "R", "E", "A", "M">> ) @@
    ( 2 :> <<"S", "O", "C", "K", "_", "D", "G", "R", "A", "M">> )

----------------------------------------------------------------------------
(* Hostname resolver *)

\* a resolver that looks an address up again although it is cached
ResolveHostnameNoCacheHit(ip, cache, dns) ==
    IF ip \in NoLookupIPs THEN <<<<>>, cache, 0>>
    ELSE IF \E p \in PrivatePrefixes : StartsWith(ip, p) THEN <<<<>>, cache, 0>>
    ELSE IF dns[ip][1] = "ok"
         THEN <<dns[ip][2], (ip :> dns[ip][2]) @@ cache, 1>>
         ELSE <<<<>>, (ip :> <<>>) @@ cache, 1>>

\* a resolver that looks addresses of the private ranges up as well
ResolveHostnameNoPrivateSkip(ip, cache, dns) ==
    IF ip \in NoLookupIPs THEN <<<<>>, cache, 0>>
    ELSE IF ip \in DOMAIN cache THEN <<cache[ip], cache, 0>>
    ELSE IF dns[ip][1] = "ok"
         THEN <<dns[ip][2], (ip :> dns[ip][2]) @@ cache, 1>>
         ELSE <<<<>>, (ip :> <<>>) @@ cache, 1>>

\* a resolver that does not cache a failed lookup
ResolveHostnameNoNegativeCache(ip, cache, dns) ==
    IF ip \in NoLookupIPs THEN <<<<>>, cache, 0>>
    ELSE IF \E p \in PrivatePrefixes : StartsWith(ip, p) THEN <<<<>>, cache, 0>>
    ELSE IF ip \in DOMAIN cache THEN <<cache[ip], cache, 0>>
    ELSE IF dns[ip][1] = "ok"
         THEN <<dns[ip][2], (ip :> dns[ip][2]) @@ cache, 1>>
         ELSE <<<<>>, cache, 1>>

\* _resolve_hostname(ip) with the cache `cache` (a function ip -> hostname),
\* when socket.gethostbyaddr would answer dns[ip]: <<"ok", name>> or
\* <<"fail">>.  The result is <<hostname, cache afterwards, lookups made>>.
ResolveHostname(ip, cache, dns) ==
    IF ip \in NoLookupIPs THEN <<<<>>, cache, 0>>
    ELSE IF \E p \in PrivatePrefixes : StartsWith(ip, p) THEN <<<<>>, cache, 0>>
    ELSE IF ip \in DOMAIN cache THEN <<cache[ip], cache, 0>>
    ELSE IF dns[ip][1] = "ok"
         THEN <<dns[ip][2], (ip :> dns[ip][2]) @@ cache, 1>>
         ELSE <<<<>>, (ip :> <<>>) @@ cache, 1>>

----------------------------------------------------------------------------
(* Snapshot builder: lines 364-425 of update_connections *)

\* A raw connection record of psutil.net_connections is a record
\*   laddr, raddr : PyNone or a pair <<ip, port>> of Python values
\*   pid          : PyInt or PyNone
\*   pname        : what psutil.Process(pid).name() answers, <<"ok", name>>,
\*                  or <<"raise">> when it raises NoSuchProcess/AccessDenied
\*   status       : a Python value
\*   family, type : the numeric codes of the address family and socket kind

HasAddr(addr) == ~IsNone(addr)

ProcessName(conn) ==
    IF Truthy(conn.pid) /\ conn.pname[1] = "ok" THEN conn.pname[2] ELSE <<>>

\* getattr(conn, "status", "") or "-", then "-" if it reads NONE
NormalizeStatus(status) ==
    LET s == IF Truthy(status) THEN status ELSE PyStr(Dash)
    IN  IF Upper(Str(s)) = NoneUpper THEN PyStr(Dash) ELSE s

FamilyName(code) ==
    IF code \in DOMAIN FamilyNames THEN FamilyNames[code] ELSE IntToStr(code)

SocketKindName(code) ==
    IF code \in DOMAIN SocketKindNames THEN SocketKindNames[code]
    ELSE IntToStr(code)

RemoteIP(conn) == IF HasAddr(conn.raddr) THEN conn.raddr[1] ELSE PyStr(<<>>)
RemotePort(conn) == IF HasAddr(conn.raddr) THEN conn.raddr[2] ELSE PyStr(<<>>)

\* row_data of one record, given the hostname resolved for its remote IP
RowData(conn, hostname) ==
    << PyStr(ProcessName(conn)), conn.pid, conn.laddr[1], conn.laddr[2],
       RemoteIP(conn), RemotePort(conn), PyStr(hostname),
       NormalizeStatus(conn.status), PyStr(FamilyName(conn.family)),
       PyStr(SocketKindName(conn.type)) >>

\* self._resolve_hostname(remote_ip) if remote_ip else ""
HostnameFor(conn, cache, dns) ==
    IF Truthy(RemoteIP(conn))
    THEN ResolveHostname(Str(RemoteIP(conn)), cache, dns)
    ELSE <<<<>>, cache, 0>>

\* a loop that puts the row of each record before the rows of the records
\* enumerated before it
RECURSIVE BuildRowsNewestFirst(_, _, _)
BuildRowsNewestFirst(conns, cache, dns) ==
    IF Len(conns) = 0
    THEN [rows |-> <<>>, cache |-> cache, lookups |-> 0, calls |-> <<>>]
    ELSE IF ~HasAddr(Head(conns).laddr)
         THEN BuildRowsNewestFirst(Tail(conns), cache, dns)
         ELSE LET h == HostnameFor(Head(conns), cache, dns)
                  rest == BuildRowsNewestFirst(Tail(conns), h[2], dns)
              IN  [rows |-> rest.rows \o <<RowData(Head(conns), h[1])>>,
                   cache |-> rest.cache,
                   lookups |-> h[3] + rest.lookups,
                   calls |-> (IF h[3] > 0
                              THEN <<Str(RemoteIP(Head(conns)))>>
                              ELSE <<>>) \o rest.calls]

\* The loop over the records: the rows appended, the cache afterwards, the
\* number of reverse lookups made and the addresses looked up, in call order.
RECURSIVE BuildRows(_, _, _)
BuildRows(conns, cache, dns) ==
    IF Len(conns) = 0
    THEN [rows |-> <<>>, cache |-> cache, lookups |-> 0, calls |-> <<>>]
    ELSE IF ~HasAddr(Head(conns).laddr)
         THEN BuildRows(Tail(conns), cache, dns)
         ELSE LET h == HostnameFor(Head(conns), cache, dns)
                  rest == BuildRows(Tail(conns), h[2], dns)
              IN  [rows |-> <<RowData(Head(conns), h[1])>> \o rest.rows,
                   cache |-> rest.cache,
                   lookups |-> h[3] + rest.lookups,
                   calls |-> (IF h[3] > 0
                              THEN <<Str(RemoteIP(Head(conns)))>>
                              ELSE <<>>) \o rest.calls]

----------------------------------------------------------------------------
(* Diff: _get_change_type and the tombstones of update_connections *)

\* the identity key (LocalIP, LocalPort) of a row
KeyOf(row) == <<row[3], row[4]>>

KeysOf(rows) == {KeyOf(rows[i]) : i \in 1..Len(rows)}

\* any("(DELETED)" in str(val) for val in row)
IsDeletedRow(row) ==
    \E i \in 1..Len(row) : Contains(DeletedMarker, Str(row[i]))

\* a _get_change_type that reports a row with a known key as existing without
\* comparing the rows
GetChangeTypeKeyOnly(new_row, previous) ==
    IF Len(previous) = 0 THEN "existing"
    ELSE IF \E i \in 1..Len(previous) : KeyOf(previous[i]) = KeyOf(new_row)
         THEN "existing"
         ELSE "added"

\* a _get_change_type without the first-run test
GetChangeTypeNoFirstRun(new_row, previous) ==
    IF \E i \in 1..Len(previous) : KeyOf(previous[i]) = KeyOf(new_row)
    THEN IF \E i \in 1..Len(previous) : previous[i] = new_row
         THEN "existing" ELSE "changed"
    ELSE "added"

\* _get_change_type(new_row) against previous_data: the first previous row
\* with the key of new_row decides
GetChangeType(new_row, previous) ==
    IF Len(previous) = 0 THEN "existing"
    ELSE IF \E i \in 1..Len(previous) : KeyOf(previous[i]) = KeyOf(new_row)
         THEN LET first == CHOOSE i \in 1..Len(previous) :
                               /\ KeyOf(previous[i]) = KeyOf(new_row)
                               /\ \A j \in 1..(i - 1) :
                                      KeyOf(previous[j]) # KeyOf(new_row)
              IN  IF new_row # previous[first] THEN "changed" ELSE "existing"
         ELSE "added"

\* deleted_row of update_connections: " (DELETED)" appended to column 0
DeletedRow(prev_row) ==
    [i \in 1..Len(prev_row) |->
        IF i = 1 THEN PyStr(Str(prev_row[i]) \o DeletedSuffix)
        ELSE prev_row[i]]

\* tombstones for every previous row, whether or not its key is still there
TombstonesOfAll(previous, current_keys) ==
    [i \in 1..Len(previous) |-> DeletedRow(previous[i])]

\* tombstones for the last previous row of each vanished key only
TombstonesPerKey(previous, current_keys) ==
    LET gone == SelectSeq(previous, LAMBDA r : KeyOf(r) \notin current_keys)
        last == { i \in 1..Len(gone) :
                    \A j \in (i + 1)..Len(gone) : KeyOf(gone[j]) # KeyOf(gone[i]) }
        RECURSIVE Pick(_)
        Pick(i) == IF i > Len(gone) THEN <<>>
                   ELSE (IF i \in last THEN <<DeletedRow(gone[i])>> ELSE <<>>)
                        \o Pick(i + 1)
    IN  Pick(1)

\* the tombstones appended to displayed_data, in the order of previous_data
Tombstones(previous, current_keys) ==
    LET gone == SelectSeq(previous, LAMBDA r : KeyOf(r) \notin current_keys)
    IN  [i \in 1..Len(gone) |-> DeletedRow(gone[i])]

----------------------------------------------------------------------------
(* Filter: _parse_filter and _row_matches_filter *)

\* A filters dict is a function whose keys are <<"col", n>> (a 0-based
\* column index) or GeneralKey, and whose values are strings.
EmptyDict == [k \in {} |-> <<>>]

\* filters[key] = value
DictSet(filters, key, value) == (key :> value) @@ filters

\* a loop body that searches for a term with an unknown key in every column
ParseTermUnknownAsGeneral(filters, term) ==
    IF Contains(<<":">>, term)
    THEN LET c == FirstColon(term)
             key == SubSeq(term, 1, c - 1)
             value == SubSeq(term, c + 1, Len(term))
         IN  IF key \in DOMAIN ColumnMapping
             THEN DictSet(filters, <<"col", ColumnMapping[key]>>, value)
             ELSE DictSet(filters, GeneralKey, term)
    ELSE DictSet(filters, GeneralKey, term)

\* the body of the loop over the terms of _parse_filter
ParseTerm(filters, term) ==
    IF Contains(<<":">>, term)
    THEN LET c == FirstColon(term)
             key == SubSeq(term, 1, c - 1)
             value == SubSeq(term, c + 1, Len(term))
         IN  IF key \in DOMAIN ColumnMapping
             THEN DictSet(filters, <<"col", ColumnMapping[key]>>, value)
             ELSE filters
    ELSE DictSet(filters, GeneralKey, term)

RECURSIVE ParseTerms(_, _)
ParseTerms(filters, terms) ==
    IF Len(terms) = 0 THEN filters
    ELSE ParseTerms(ParseTerm(filters, Head(terms)), Tail(terms))

\* _parse_filter(filter_str)
ParseFilter(filter_str) == ParseTerms(EmptyDict, Split(Lower(filter_str)))

\* ' '.join(str(val).lower() for val in row)
RECURSIVE JoinLower(_)
JoinLower(row) ==
    IF Len(row) = 0 THEN <<>>
    ELSE IF Len(row) = 1 THEN Lower(Str(row[1]))
    ELSE Lower(Str(row[1])) \o <<" ">> \o JoinLower(Tail(row))

\* a match that wants the cell of a column term to equal the value
RowMatchesFilterExact(row, filters) ==
    \A k \in DOMAIN filters :
        IF k = GeneralKey
        THEN Contains(filters[k], JoinLower(row))
        ELSE /\ k[2] < Len(row)
             /\ filters[k] = Lower(Str(row[k[2] + 1]))

\* _row_matches_filter(row, filters)
RowMatchesFilter(row, filters) ==
    \A k \in DOMAIN filters :
        IF k = GeneralKey
        THEN Contains(filters[k], JoinLower(row))
        ELSE /\ k[2] < Len(row)
             /\ Contains(filters[k], Lower(Str(row[k[2] + 1])))

\* the rows of `data` that _apply_filter keeps for a non-empty filter
FilterRows(data, filter_str) ==
    LET filter_terms == ParseFilter(filter_str)
    IN  SelectSeq(data, LAMBDA r : RowMatchesFilter(r, filter_terms))

----------------------------------------------------------------------------
(* Display: _display_data *)

\* the tag _display_data gives a row, "" for no tag
TagFor(row, previous) ==
    IF IsDeletedRow(row) THEN "deleted"
    ELSE LET change_type == GetChangeType(row, previous)
         IN  IF change_type = "added" THEN "added"
             ELSE IF change_type = "changed" THEN "changed"
             ELSE ""

\* The tree after _display_data(data): one item per row, in order.  The tree
\* is cleared first, so an item is identified by its position.
DisplayTree(data, previous) ==
    [i \in 1..Len(data) |->
        [values |-> data[i], tags |-> TagFor(data[i], previous)]]

\* highlighted_items after _display_data: the tagged items, in order
RECURSIVE HighlightedFrom(_, _)
HighlightedFrom(items, i) ==
    IF i > Len(items) THEN <<>>
    ELSE (IF items[i].tags # "" THEN <<i>> ELSE <<>>)
         \o HighlightedFrom(items, i + 1)

Highlighted(items) == HighlightedFrom(items, 1)

----------------------------------------------------------------------------
(* Sort: the keys and sorted() of _sort_by_column *)

\* numeric_key(x) and the string key, for the row x and column col
SortKey(x, col) ==
    LET val == RemoveAll(Str(x[ColIndex(col)]), DeletedSuffix)
    IN  IF col \in NumericColumns
        THEN (IF IsDigit(val) THEN ParseInt(val) ELSE 0)
        ELSE Lower(val)

\* a comparison of the numeric keys by their decimal text
KeyLessAsText(a, b, col) ==
    IF col \in NumericColumns THEN StrLess(IntToStr(a), IntToStr(b))
    ELSE StrLess(a, b)

\* the order sorted() puts the keys of a column in
KeyLess(a, b, col) ==
    IF col \in NumericColumns THEN a < b ELSE StrLess(a, b)

\* a comparison that also puts x before a y with an equal key
BeforeOrTie(x, y, col, reverse) ==
    IF reverse THEN ~KeyLess(SortKey(x, col), SortKey(y, col), col)
    ELSE ~KeyLess(SortKey(y, col), SortKey(x, col), col)

\* x must come before y in the result
Before(x, y, col, reverse) ==
    IF reverse THEN KeyLess(SortKey(y, col), SortKey(x, col), col)
    ELSE KeyLess(SortKey(x, col), SortKey(y, col), col)

\* sorted() is stable: x goes after every row it does not come before
RECURSIVE InsertSorted(_, _, _, _)
InsertSorted(x, s, col, reverse) ==
    IF Len(s) = 0 THEN <<x>>
    ELSE IF Before(x, Head(s), col, reverse) THEN <<x>> \o s
    ELSE <<Head(s)>> \o InsertSorted(x, Tail(s), col, reverse)

\* sorted(data, key=..., reverse=reverse)
RECURSIVE Sorted(_, _, _)
Sorted(data, col, reverse) ==
    IF Len(data) = 0 THEN <<>>
    ELSE InsertSorted(data[Len(data)],
                      Sorted(SubSeq(data, 1, Len(data) - 1), col, reverse),
                      col, reverse)

----------------------------------------------------------------------------
(* Bounds and inputs *)

\* the longest list psutil.net_connections returns, in Spec
MaxConnsAll == 1

\* the longest list psutil.net_connections returns, in SpecDiff and SpecSort
MaxConns == 2

\* the most _remove_highlighting callbacks pending at once
MaxJobs == 2

\* the most _auto_refresh_callback timers pending at once
MaxTimers == 2

\* the most calls of socket.gethostbyaddr before a further resolve or poll
MaxDnsCalls == 3

sChrome == <<"c", "h", "r", "o", "m", "e">>
sLocalA == <<"1", "0", ".", "0", ".", "0", ".", "1">>
sAny == <<"0", ".", "0", ".", "0", ".", "0">>
sPublic == <<"8", ".", "8", ".", "8", ".", "8">>
sDnsName == <<"d", "n", "s", ".", "g", "o", "o", "g", "l", "e">>
sEstablished ==
    <<"E", "S", "T", "A", "B", "L", "I", "S", "H", "E", "D">>
sCloseWait == <<"C", "L", "O", "S", "E", "_", "W", "A", "I", "T">>
sDenied == <<"d", "e", "n", "i", "e", "d">>

\* an established TCP connection of chrome (pid 7) from 10.0.0.1:80
ConnA ==
    [ laddr |-> <<PyStr(sLocalA), PyInt(80)>>,
      raddr |-> <<PyStr(sPublic), PyInt(443)>>,
      pid |-> PyInt(7), pname |-> <<"ok", sChrome>>,
      status |-> PyStr(sEstablished), family |-> 2, type |-> 1 ]

\* the same connection, differing only in status
ConnA2 == [ConnA EXCEPT !.status = PyStr(sCloseWait)]

\* an unowned UDP socket bound to 0.0.0.0:9
ConnB ==
    [ laddr |-> <<PyStr(sAny), PyInt(9)>>,
      raddr |-> PyNone,
      pid |-> PyNone, pname |-> <<"raise">>,
      status |-> PyStr(NoneUpper), family |-> 2, type |-> 2 ]

RawConns == {ConnA, ConnA2, ConnB}

\* the lists psutil.net_connections can return
RECURSIVE SeqsUpTo(_, _)
SeqsUpTo(S, n) ==
    IF n = 0 THEN {<<>>}
    ELSE LET shorter == SeqsUpTo(S, n - 1)
         IN  shorter \cup {Append(s, x) : s \in shorter, x \in S}

ConnLists == SeqsUpTo(RawConns, MaxConns)

ConnListsAll == SeqsUpTo(RawConns, MaxConnsAll)

\* the answers socket.gethostbyaddr can give
DnsAnswers == [{sPublic} -> {<<"ok", sDnsName>>, <<"fail">>}]

\* reverse DNS is up: every lookup is answered
DnsUp == [{sPublic} -> {<<"ok", sDnsName>>}]

sCloud == <<"1", ".", "1", ".", "1", ".", "1">>
sOtherName == <<"o", "n", "e", ".", "o", "n", "e">>
sLoopback == <<"1", "2", "7", ".", "0", ".", "0", ".", "1">>
sLoopback6 == <<":", ":", "1">>
sAny6 == <<":", ":">>
sLocalhost == <<"l", "o", "c", "a", "l", "h", "o", "s", "t">>
sHome == <<"1", "9", "2", ".", "1", "6", "8", ".", "1", ".", "5">>
sDocker == <<"1", "7", "2", ".", "1", "7", ".", "0", ".", "2">>
sLinkLocal == <<"1", "6", "9", ".", "2", "5", "4", ".", "1", ".", "1">>

\* the addresses _resolve_hostname is called with, in SpecResolve
ResolveIPs ==
    { <<>>, sLoopback, sLoopback6, sAny, sAny6, sLocalhost, sHome, sLocalA,
      sDocker, sLinkLocal, sPublic, sCloud }

\* what one call of socket.gethostbyaddr can answer
LookupAnswers == {<<"ok", sDnsName>>, <<"ok", sOtherName>>, <<"fail">>}

\* texts typed into the filter box
fNameStatus ==
    <<"n", "a", "m", "e", ":", "c", "h", "r", "o", "m", "e", " ",
      "s", "t", "a", "t", "u", "s", ":", "e", "s", "t">>
fTwoBare == <<"z", "z", " ", "D", "E", "L">>
fRport == <<" ", "r", "p", "o", "r", "t", ":", "4", "4">>

\* the texts typed into the filter box, in Spec and in SpecDiff
FilterTexts == {<<>>, fNameStatus, fTwoBare, fRport}

FilterTextsDiff == {<<>>, fNameStatus}

sDns == <<"d", "n", "s">>
sListen == <<"L", "I", "S", "T", "E", "N">>

\* a listening IPv6 TCP socket of the process dns (pid 80) on 0.0.0.0:443
\* with the peer 8.8.8.8:8044
ConnE ==
    [ laddr |-> <<PyStr(sAny), PyInt(443)>>,
      raddr |-> <<PyStr(sPublic), PyInt(8044)>>,
      pid |-> PyInt(80), pname |-> <<"ok", sDns>>,
      status |-> PyStr(sListen), family |-> 10, type |-> 1 ]

\* the longest list psutil.net_connections returns, in SpecFilter
MaxConnsFilter == 3

\* the lists the constructor's poll can find, in SpecFilter
ConnListsFilter == SeqsUpTo({ConnA, ConnE, ConnB}, MaxConnsFilter)

\* a term with an unrecognized key
fUnknown == <<"f", "o", "o", ":", "b", "a", "r">>
\* two such terms, one with an empty key
fUnknownTwo == <<"f", "o", "o", ":", "b", "a", "r", " ", ":", "z", "z">>
fUnknownRport ==
    <<"x", ":", "y", " ", "r", "p", "o", "r", "t", ":", "4", "4">>
fNameUnknownStatus ==
    <<"n", "a", "m", "e", ":", "c", "h", "r", "o", "m", "e", " ", "x", ":",
      "1", " ", "s", "t", "a", "t", "u", "s", ":", "e", "s", "t">>
fBareUnknown == <<"g", "o", "o", " ", "f", "o", "o", ":", "b", "a", "r">>
\* one term with a recognized key, for each of the ten keys
fName == <<"n", "a", "m", "e", ":", "D", "N", "S">>
fPid == <<"p", "i", "d", ":", "8", "0">>
fLip == <<"l", "i", "p", ":", "1", "0", ".">>
fLport == <<"l", "p", "o", "r", "t", ":", "4", "4", "3">>
fRip == <<"r", "i", "p", ":", "8", ".", "8">>
fHost == <<"h", "o", "s", "t", ":", "D", "n", "s">>
fStatus == <<"S", "t", "a", "t", "u", "s", ":", "E", "S", "T">>
fFamily == <<"f", "a", "m", "i", "l", "y", ":", "i", "n", "e", "t", "6">>
fType == <<"t", "y", "p", "e", ":", "d", "g", "r", "a", "m">>

\* the one-term texts with a recognized key
FilterTextsOneKey ==
    {fName, fPid, fLip, fLport, fRip, fRport, fHost, fStatus, fFamily, fType}

\* the texts typed into the filter box, in SpecFilter
FilterTextsKeys ==
    {<<>>, fUnknown, fUnknownTwo, fUnknownRport, fNameUnknownStatus,
     fBareUnknown} \cup FilterTextsOneKey

\* a TCP socket of pid 9 from 0.0.0.0:10 to 8.8.8.8:2
ConnP10 ==
    [ laddr |-> <<PyStr(sAny), PyInt(10)>>,
      raddr |-> <<PyStr(sPublic), PyInt(2)>>,
      pid |-> PyInt(9), pname |-> <<"ok", sChrome>>,
      status |-> PyStr(sEstablished), family |-> 2, type |-> 1 ]

\* a TCP socket of pid 10 from 0.0.0.0:2 to 8.8.8.8:10
ConnP2 ==
    [ laddr |-> <<PyStr(sAny), PyInt(2)>>,
      raddr |-> <<PyStr(sPublic), PyInt(10)>>,
      pid |-> PyInt(10), pname |-> <<"ok", sDns>>,
      status |-> PyStr(sEstablished), family |-> 2, type |-> 1 ]

\* a record without a local address, with the peer 8.8.8.8:443
ConnC == [ConnA EXCEPT !.laddr = PyNone]

\* the longest list psutil.net_connections returns, in SpecBuild
MaxConnsBuild == 2

\* the lists psutil.net_connections can return, in SpecBuild
ConnListsBuild == SeqsUpTo({ConnA, ConnB, ConnC}, MaxConnsBuild)

\* the longest list psutil.net_connections returns, in SpecNumSort
MaxConnsNumSort == 3

\* the lists the constructor's poll can find, in SpecNumSort: local ports
\* 9, 10 and 2; pids None, 9 and 10; remote ports absent, 2 and 10
ConnListsNumSort == SeqsUpTo({ConnB, ConnP10, ConnP2}, MaxConnsNumSort)

\* the column headers clicked, in Spec and in SpecSort
SortColumnsAll == {"Process"}

SortColumns == {"Process", "LocalPort", "Status"}

----------------------------------------------------------------------------
(* State *)

VARIABLES
    connection_data,    \* rows of the latest poll
    displayed_data,     \* those rows followed by the tombstones
    previous_data,      \* connection_data of the poll before
    filtered_data,      \* the rows the last non-empty filter kept
    current_filter,     \* the stripped filter text
    sort_orders,        \* column -> BOOLEAN
    heading,            \* column -> "" | "up" | "down", the header indicator
    tree,               \* the items shown: records [values, tags]
    highlighted_items,  \* positions of the tagged items of tree
    hostname_cache,     \* ip -> hostname
    after_jobs,         \* pending root.after(5000, _remove_highlighting)
                        \* callbacks, oldest first; 0 marks the one the
                        \* latest poll scheduled, 1 an older one
    last_op,            \* the handler that ran last
    poll_failed,        \* the latest poll took the except branch
    purge_fired,        \* the callback the latest poll scheduled has run
    last_conns,         \* the records the latest poll enumerated
    last_dns,           \* what socket.gethostbyaddr would answer during the
                        \* latest poll that enumerated
    dns_calls,          \* the addresses passed to socket.gethostbyaddr so
                        \* far, in call order
    last_resolve,       \* the latest direct call of _resolve_hostname
    auto_refresh_enabled,
    auto_refresh_job,   \* NoJob or the id root.after returned
    refresh_timers      \* ids of the pending _auto_refresh_callback timers

vars ==
    << connection_data, displayed_data, previous_data, filtered_data,
       current_filter, sort_orders, heading, tree, highlighted_items,
       hostname_cache, after_jobs, last_op, poll_failed, purge_fired,
       last_conns, last_dns, dns_calls, last_resolve, auto_refresh_enabled,
       auto_refresh_job, refresh_timers >>

\* self.auto_refresh_job = None
NoJob == 0

\* no direct call of _resolve_hostname was made yet
NoResolve == [called |-> FALSE, ip |-> <<>>, hostname |-> <<>>,
              lookups |-> 0, cache_before |-> EmptyDict,
              answer |-> <<"fail">>]

\* the fields of the auto-refresh timer
refresh_vars == <<auto_refresh_enabled, auto_refresh_job, refresh_timers>>

ColumnSet == {Columns[i] : i \in 1..Len(Columns)}

NoHeadings == [c \in ColumnSet |-> ""]

\* the rows the tree shows, in order
ShownRows == [i \in 1..Len(tree) |-> tree[i].values]

----------------------------------------------------------------------------
(* Handlers *)

\* _apply_filter on displayed_data `displayed`: the rows handed to
\* _display_data and filtered_data afterwards
ApplyFilter(displayed, filter_str, filtered) ==
    IF Len(filter_str) = 0
    THEN [shown |-> displayed, filtered |-> filtered]
    ELSE LET filtered_data_new == FilterRows(displayed, filter_str)
         IN  [shown |-> filtered_data_new, filtered |-> filtered_data_new]

\* error_row of update_connections for the error text err
ErrorRow(err) ==
    << PyStr(ErrorText), PyStr(<<>>), PyStr(err), PyStr(<<>>), PyStr(<<>>),
       PyStr(<<>>), PyStr(<<>>), PyStr(<<>>), PyStr(<<>>), PyStr(<<>>) >>

\* update_connections when psutil.net_connections returns conns and reverse
\* DNS answers dns, from a state with the given fields: the fields afterwards
UpdateConnections(conn_data, filter_str, filtered, cache, jobs, conns, dns) ==
    LET built == BuildRows(conns, cache, dns)
        current_keys == KeysOf(built.rows)
        displayed == built.rows \o Tombstones(conn_data, current_keys)
        applied == ApplyFilter(displayed, filter_str, filtered)
        items == DisplayTree(applied.shown, conn_data)
    IN  [ previous_data |-> conn_data,
          connection_data |-> built.rows,
          displayed_data |-> displayed,
          filtered_data |-> applied.filtered,
          tree |-> items,
          highlighted_items |-> Highlighted(items),
          hostname_cache |-> built.cache,
          after_jobs |-> [i \in 1..Len(jobs) |-> 1]
                         \o (IF Len(Highlighted(items)) > 0 THEN <<0>>
                             ELSE <<>>),
          calls |-> built.calls ]

\* update_connections when psutil.net_connections raises err
UpdateConnectionsFailed(conn_data, filter_str, filtered, cache, jobs, err) ==
    LET displayed == <<ErrorRow(err)>>
        applied == ApplyFilter(displayed, filter_str, filtered)
        items == DisplayTree(applied.shown, conn_data)
    IN  [ previous_data |-> conn_data,
          connection_data |-> <<ErrorRow(err)>>,
          displayed_data |-> displayed,
          filtered_data |-> applied.filtered,
          tree |-> items,
          highlighted_items |-> Highlighted(items),
          hostname_cache |-> cache,
          after_jobs |-> [i \in 1..Len(jobs) |-> 1],
          calls |-> <<>> ]

\* the fields a poll leaves as `r`
PollSets(r) ==
    /\ previous_data' = r.previous_data
    /\ connection_data' = r.connection_data
    /\ displayed_data' = r.displayed_data
    /\ filtered_data' = r.filtered_data
    /\ tree' = r.tree
    /\ highlighted_items' = r.highlighted_items
    /\ hostname_cache' = r.hostname_cache
    /\ after_jobs' = r.after_jobs

\* __init__: the fields are set, the sort orders initialised by
\* _setup_column_sorting, and update_connections runs once
InitFrom(lists, answers) ==
    /\ current_filter = <<>>
    /\ sort_orders = [c \in ColumnSet |-> TRUE]
    /\ heading = NoHeadings
    /\ purge_fired = FALSE
    /\ last_resolve = NoResolve
    /\ auto_refresh_enabled = FALSE
    /\ auto_refresh_job = NoJob
    /\ refresh_timers = {}
    /\ \E conns \in lists, dns \in answers, failed \in BOOLEAN :
         LET r == IF failed
                  THEN UpdateConnectionsFailed(<<>>, <<>>, <<>>, EmptyDict,
                                               <<>>, sDenied)
                  ELSE UpdateConnections(<<>>, <<>>, <<>>, EmptyDict, <<>>,
                                         conns, dns)
         IN  /\ previous_data = r.previous_data
             /\ connection_data = r.connection_data
             /\ displayed_data = r.displayed_data
             /\ filtered_data = r.filtered_data
             /\ tree = r.tree
             /\ highlighted_items = r.highlighted_items
             /\ hostname_cache = r.hostname_cache
             /\ after_jobs = r.after_jobs
             /\ dns_calls = r.calls
             /\ last_conns = (IF failed THEN <<>> ELSE conns)
             /\ last_dns = dns
             /\ poll_failed = failed
             /\ last_op = [op |-> IF failed THEN "poll_failed" ELSE "poll",
                           col |-> "", twice |-> FALSE]

\* update_connections on the fields of the state, enumeration succeeds
UpdateStep(conns, dns) ==
    LET r == UpdateConnections(connection_data, current_filter,
                               filtered_data, hostname_cache, after_jobs,
                               conns, dns)
    IN  /\ Len(after_jobs) < MaxJobs
        /\ Len(dns_calls) < MaxDnsCalls
        /\ PollSets(r)
        /\ dns_calls' = dns_calls \o r.calls
        /\ last_conns' = conns
        /\ last_dns' = dns
        /\ heading' = NoHeadings
        /\ poll_failed' = FALSE
        /\ purge_fired' = FALSE
        /\ UNCHANGED <<current_filter, sort_orders, last_resolve>>

\* refresh: update_connections, enumeration succeeds
Poll(conns, dns) ==
    /\ UpdateStep(conns, dns)
    /\ last_op' = [op |-> "poll", col |-> "", twice |-> FALSE]
    /\ UNCHANGED refresh_vars

\* update_connections, psutil.net_connections raises: the early return
\* leaves the column headers and schedules no callback
UpdateFailedStep(err) ==
    /\ Len(after_jobs) < MaxJobs
    /\ PollSets(UpdateConnectionsFailed(connection_data, current_filter,
                                        filtered_data, hostname_cache,
                                        after_jobs, err))
    /\ poll_failed' = TRUE
    /\ purge_fired' = FALSE
    /\ last_conns' = <<>>
    /\ UNCHANGED << current_filter, sort_orders, heading, dns_calls,
                    last_resolve, last_dns >>

\* refresh: update_connections, psutil.net_connections raises
PollFailed(err) ==
    /\ UpdateFailedStep(err)
    /\ last_op' = [op |-> "poll_failed", col |-> "", twice |-> FALSE]
    /\ UNCHANGED refresh_vars

\* _on_search_change with `text` in the filter box
OnSearchChange(text) ==
    LET applied == ApplyFilter(displayed_data, Strip(text), filtered_data)
    IN  /\ current_filter' = Strip(text)
        /\ filtered_data' = applied.filtered
        /\ tree' = DisplayTree(applied.shown, previous_data)
        /\ highlighted_items' = Highlighted(tree')
        /\ last_op' = [op |-> "filter", col |-> "", twice |-> FALSE]
        /\ UNCHANGED << connection_data, displayed_data, previous_data,
                        sort_orders, heading, hostname_cache, after_jobs,
                        poll_failed, purge_fired,
                        last_conns, last_dns, dns_calls,
                        last_resolve, refresh_vars >>


\* data_to_sort of _sort_by_column
DataToSort ==
    IF Len(current_filter) > 0 /\ Len(filtered_data) > 0
    THEN filtered_data
    ELSE displayed_data

\* the ascending flag of a column after a click on it
ToggledOrder(ascending) == ~ascending

\* _sort_by_column(col): a click on the header of col
SortByColumn(col) ==
    /\ last_op' = [op |-> "sort", col |-> col,
                   twice |-> last_op.op = "sort" /\ last_op.col = col]
    /\ IF Len(DataToSort) = 0
       THEN UNCHANGED <<sort_orders, heading, tree, highlighted_items>>
       ELSE LET ascending == ToggledOrder(sort_orders[col])
                reverse == ~ascending
            IN  /\ sort_orders' = [sort_orders EXCEPT ![col] = ascending]
                /\ tree' = DisplayTree(Sorted(DataToSort, col, reverse),
                                       previous_data)
                /\ highlighted_items' = Highlighted(tree')
                /\ heading' = [c \in ColumnSet |->
                                 IF c = col
                                 THEN (IF reverse THEN "down" ELSE "up")
                                 ELSE ""]
    /\ UNCHANGED << connection_data, displayed_data, previous_data,
                    filtered_data, current_filter, hostname_cache,
                    after_jobs, poll_failed, purge_fired, last_conns, last_dns,
                    dns_calls, last_resolve, refresh_vars >>

\* the items _remove_highlighting deletes: the highlighted items whose
\* values carry the deleted marker
ItemsToRemove ==
    { highlighted_items[k] : k \in
        { j \in 1..Len(highlighted_items) :
            IsDeletedRow(tree[highlighted_items[j]].values) } }

RECURSIVE KeepItems(_, _, _)
KeepItems(items, i, removed) ==
    IF i > Len(items) THEN <<>>
    ELSE (IF i \in removed THEN <<>> ELSE <<items[i]>>)
         \o KeepItems(items, i + 1, removed)

\* _remove_highlighting, run by the oldest pending callback
RemoveHighlighting ==
    /\ Len(after_jobs) > 0
    /\ after_jobs' = Tail(after_jobs)
    /\ purge_fired' = (purge_fired \/ Head(after_jobs) = 0)
    /\ displayed_data' =
         IF ItemsToRemove # {}
         THEN SelectSeq(displayed_data, LAMBDA row : ~IsDeletedRow(row))
         ELSE displayed_data
    /\ tree' =
         KeepItems([i \in 1..Len(tree) |->
                      IF \E k \in 1..Len(highlighted_items) :
                             highlighted_items[k] = i
                      THEN [tree[i] EXCEPT !.tags = ""]
                      ELSE tree[i]],
                   1, ItemsToRemove)
    /\ highlighted_items' = <<>>
    /\ last_op' = [op |-> "purge", col |-> "", twice |-> FALSE]
    /\ UNCHANGED << connection_data, previous_data, filtered_data,
                    current_filter, sort_orders, heading, hostname_cache,
                    poll_failed, last_conns, last_dns, dns_calls, last_resolve,
                    refresh_vars >>

\* _resolve_hostname(ip) called on the viewer, when socket.gethostbyaddr
\* would answer `answer`
Resolve(ip, answer) ==
    LET r == ResolveHostname(ip, hostname_cache, [x \in {ip} |-> answer])
    IN  /\ Len(dns_calls) < MaxDnsCalls
        /\ hostname_cache' = r[2]
        /\ dns_calls' = dns_calls \o (IF r[3] > 0 THEN <<ip>> ELSE <<>>)
        /\ last_resolve' = [called |-> TRUE, ip |-> ip, hostname |-> r[1],
                            lookups |-> r[3],
                            cache_before |-> hostname_cache,
                            answer |-> answer]
        /\ last_op' = [op |-> "resolve", col |-> "", twice |-> FALSE]
        /\ UNCHANGED << connection_data, displayed_data, previous_data,
                        filtered_data, current_filter, sort_orders, heading,
                        tree, highlighted_items, after_jobs, poll_failed,
                        purge_fired, last_conns, last_dns, refresh_vars >>

\* the id root.after returns: one that names no pending timer and differs
\* from the id held in auto_refresh_job
NewTimerId(pending, job) ==
    CHOOSE id \in 1..(MaxTimers + 2) :
        /\ id \notin pending \cup {job}
        /\ \A other \in 1..(id - 1) : other \in pending \cup {job}

\* a toggle_auto_refresh that stops without cancelling the pending timer
ToggleAutoRefreshNoCancel ==
    /\ IF auto_refresh_enabled
       THEN /\ auto_refresh_enabled' = FALSE
            /\ auto_refresh_job' = NoJob
            /\ UNCHANGED refresh_timers
       ELSE /\ Cardinality(refresh_timers) < MaxTimers
            /\ auto_refresh_enabled' = TRUE
            /\ auto_refresh_job' = NewTimerId(refresh_timers, auto_refresh_job)
            /\ refresh_timers' = refresh_timers \cup {auto_refresh_job'}
    /\ last_op' = [op |-> "toggle", col |-> "", twice |-> FALSE]
    /\ UNCHANGED << connection_data, displayed_data, previous_data,
                    filtered_data, current_filter, sort_orders, heading,
                    tree, highlighted_items, hostname_cache, after_jobs,
                    poll_failed, purge_fired, last_conns, last_dns, dns_calls,
                    last_resolve >>

\* toggle_auto_refresh: a click on the auto-refresh button; starting calls
\* _schedule_next_refresh
ToggleAutoRefresh ==
    /\ IF auto_refresh_enabled
       THEN /\ auto_refresh_enabled' = FALSE
            /\ IF auto_refresh_job # NoJob
               THEN /\ refresh_timers' = refresh_timers \ {auto_refresh_job}
                    /\ auto_refresh_job' = NoJob
               ELSE UNCHANGED <<refresh_timers, auto_refresh_job>>
       ELSE /\ Cardinality(refresh_timers) < MaxTimers
            /\ auto_refresh_enabled' = TRUE
            /\ auto_refresh_job' = NewTimerId(refresh_timers, auto_refresh_job)
            /\ refresh_timers' = refresh_timers \cup {auto_refresh_job'}
    /\ last_op' = [op |-> "toggle", col |-> "", twice |-> FALSE]
    /\ UNCHANGED << connection_data, displayed_data, previous_data,
                    filtered_data, current_filter, sort_orders, heading,
                    tree, highlighted_items, hostname_cache, after_jobs,
                    poll_failed, purge_fired, last_conns, last_dns, dns_calls,
                    last_resolve >>

\* an _auto_refresh_callback that polls and schedules no successor
AutoRefreshCallbackNoSuccessor(id, conns, dns, failed) ==
    /\ id \in refresh_timers
    /\ IF auto_refresh_enabled
       THEN /\ IF failed THEN UpdateFailedStep(sDenied)
               ELSE UpdateStep(conns, dns)
            /\ refresh_timers' = refresh_timers \ {id}
            /\ last_op' = [op |-> IF failed THEN "auto_poll_failed"
                                  ELSE "auto_poll",
                           col |-> "", twice |-> FALSE]
            /\ UNCHANGED <<auto_refresh_enabled, auto_refresh_job>>
       ELSE /\ refresh_timers' = refresh_timers \ {id}
            /\ last_op' = [op |-> "auto_skip", col |-> "", twice |-> FALSE]
            /\ UNCHANGED << connection_data, displayed_data, previous_data,
                            filtered_data, current_filter, sort_orders,
                            heading, tree, highlighted_items, hostname_cache,
                            after_jobs, poll_failed, purge_fired,
                            last_conns, last_dns,
                            dns_calls, last_resolve, auto_refresh_enabled,
                            auto_refresh_job >>

\* _auto_refresh_callback, run by the pending timer `id`: when enabled,
\* update_connections (psutil.net_connections raising when `failed`) and
\* then _schedule_next_refresh
AutoRefreshCallback(id, conns, dns, failed) ==
    /\ id \in refresh_timers
    /\ IF auto_refresh_enabled
       THEN /\ IF failed THEN UpdateFailedStep(sDenied)
               ELSE UpdateStep(conns, dns)
            /\ auto_refresh_job' =
                   NewTimerId(refresh_timers \ {id}, auto_refresh_job)
            /\ refresh_timers' =
                   (refresh_timers \ {id}) \cup {auto_refresh_job'}
            /\ last_op' = [op |-> IF failed THEN "auto_poll_failed"
                                  ELSE "auto_poll",
                           col |-> "", twice |-> FALSE]
            /\ UNCHANGED auto_refresh_enabled
       ELSE /\ refresh_timers' = refresh_timers \ {id}
            /\ last_op' = [op |-> "auto_skip", col |-> "", twice |-> FALSE]
            /\ UNCHANGED << connection_data, displayed_data, previous_data,
                            filtered_data, current_filter, sort_orders,
                            heading, tree, highlighted_items, hostname_cache,
                            after_jobs, poll_failed, purge_fired,
                            last_conns, last_dns,
                            dns_calls, last_resolve, auto_refresh_enabled,
                            auto_refresh_job >>

Init == InitFrom(ConnListsAll, DnsUp)

Next ==
    \/ \E conns \in ConnListsAll, dns \in DnsUp : Poll(conns, dns)
    \/ PollFailed(sDenied)
    \/ \E text \in FilterTexts : OnSearchChange(text)
    \/ \E col \in SortColumnsAll : SortByColumn(col)
    \/ RemoveHighlighting

\* every handler, in any order
Spec == Init /\ [][Next]_vars

InitDiff == InitFrom(ConnLists, DnsUp)

NextDiff ==
    \/ \E conns \in ConnLists, dns \in DnsUp : Poll(conns, dns)
    \/ PollFailed(sDenied)
    \/ \E text \in FilterTextsDiff : OnSearchChange(text)
    \/ RemoveHighlighting

\* the polls, the filter box and the purge: what a poll's result depends on
SpecDiff == InitDiff /\ [][NextDiff]_vars

InitSort == InitFrom(ConnLists, DnsUp)

NextSort ==
    \/ \E col \in SortColumns : SortByColumn(col)
    \/ \E conns \in ConnListsAll, dns \in DnsUp : Poll(conns, dns)

\* clicks on the column headers of the rows of one or two polls
SpecSort == InitSort /\ [][NextSort]_vars

InitRefresh == InitFrom(ConnListsAll, DnsUp)

NextRefresh ==
    \/ ToggleAutoRefresh
    \/ \E id \in refresh_timers, conns \in ConnListsAll, dns \in DnsUp,
          failed \in BOOLEAN : AutoRefreshCallback(id, conns, dns, failed)
    \/ RemoveHighlighting

\* the auto-refresh button and the timers, with no other poll
SpecRefresh == InitRefresh /\ [][NextRefresh]_vars

InitNumSort == InitFrom(ConnListsNumSort, DnsUp)

NextNumSort == \E col \in NumericColumns : SortByColumn(col)

\* clicks on the headers of the pid and port columns
SpecNumSort == InitNumSort /\ [][NextNumSort]_vars

InitBuild == InitFrom(ConnListsBuild, DnsAnswers)

NextBuild ==
    \/ \E conns \in ConnListsBuild, dns \in DnsAnswers : Poll(conns, dns)
    \/ PollFailed(sDenied)
    \/ RemoveHighlighting

\* polls and purges, reverse DNS answering or failing anew at every poll
SpecBuild == InitBuild /\ [][NextBuild]_vars

InitFilter == InitFrom(ConnListsFilter, DnsUp)

NextFilter ==
    \/ \E text \in FilterTextsKeys : OnSearchChange(text)
    \/ \E conns \in ConnListsAll, dns \in DnsUp : Poll(conns, dns)

\* edits of the filter box over the rows of one or two polls
SpecFilter == InitFilter /\ [][NextFilter]_vars

InitResolve == InitFrom(ConnListsAll, DnsAnswers)

NextResolve ==
    \E ip \in ResolveIPs, answer \in LookupAnswers : Resolve(ip, answer)

\* calls of _resolve_hostname after construction, reverse DNS answering
\* each call as it likes
SpecResolve == InitResolve /\ [][NextResolve]_vars

----------------------------------------------------------------------------
(* Properties of the diff, checked under SpecDiff *)

Range(s) == {s[i] : i \in 1..Len(s)}

\* no two rows of the snapshot share an identity key
UniqueKeys(rows) ==
    \A i, j \in 1..Len(rows) : KeyOf(rows[i]) = KeyOf(rows[j]) => i = j

\* the last handler was a poll that enumerated the connections
AfterPoll == last_op.op = "poll"

\* the last handler was a poll, whether or not enumeration failed
AfterAnyPoll == last_op.op \in {"poll", "poll_failed"}

\* the shown items whose row is a row of the current snapshot
CurrentItems == {i \in 1..Len(tree) : tree[i].values \in Range(connection_data)}

\* the class the diff contract gives a current row against a previous
\* snapshot with unique keys, as the tag that shows it
ContractTag(row, previous) ==
    IF \A p \in Range(previous) : KeyOf(p) # KeyOf(row) THEN "added"
    ELSE IF \E p \in Range(previous) : p = row THEN ""
    ELSE "changed"

\* C1: after a poll whose previous snapshot is non-empty and has unique
\* identity keys, every shown current row is tagged added when no previous
\* row has its key, untagged (unchanged) when the previous row with its key
\* is equal, and changed when that row differs in any field.
C1_Classified ==
    (AfterAnyPoll /\ Len(previous_data) > 0 /\ UniqueKeys(previous_data)) =>
        \A i \in CurrentItems :
            tree[i].tags = ContractTag(tree[i].values, previous_data)

\* a poll after which one shown row differs from its previous row in status
\* alone and is tagged changed, and another shown row is tagged added
C1_Witness ==
    /\ AfterPoll
    /\ Len(previous_data) > 0
    /\ UniqueKeys(previous_data)
    /\ \E i \in CurrentItems :
         /\ tree[i].tags = "changed"
         /\ \E p \in Range(previous_data) :
              /\ p[8] # tree[i].values[8]
              /\ \A c \in (1..10) \ {8} : p[c] = tree[i].values[c]
    /\ \E i \in CurrentItems : tree[i].tags = "added"

\* the rows of displayed_data after the rows of the current snapshot
EmittedTombstones ==
    SubSeq(displayed_data, Len(connection_data) + 1, Len(displayed_data))

\* the first row of the snapshot with the identity key of `row`
FirstWithKey(rows, row) ==
    rows[CHOOSE i \in 1..Len(rows) :
             /\ KeyOf(rows[i]) = KeyOf(row)
             /\ \A j \in 1..(i - 1) : KeyOf(rows[j]) # KeyOf(row)]

\* the previous snapshot is the current one
SameSnapshot == AfterPoll /\ connection_data = previous_data

GoneRows ==
    SelectSeq(previous_data,
              LAMBDA p : \A c \in Range(connection_data) : KeyOf(c) # KeyOf(p))

\* `t` is the tombstoned copy of the row `p`: the marker appended to the
\* process name, every other field the same
IsTombstoneOf(t, p) ==
    /\ t[1] = PyStr(Str(p[1]) \o DeletedSuffix)
    /\ \A c \in 2..10 : t[c] = p[c]

C10_FirstRun ==
    (AfterAnyPoll /\ Len(previous_data) = 0) =>
        /\ \A i \in 1..Len(tree) : tree[i].tags = ""
        /\ displayed_data = connection_data
        /\ \A i \in 1..Len(displayed_data) : ~IsDeletedRow(displayed_data[i])

\* a poll that found connections after a poll that found none, with the
\* purge callback of an earlier poll still pending
C10_Witness ==
    /\ AfterPoll
    /\ Len(previous_data) = 0
    /\ Len(tree) = 2
    /\ Len(after_jobs) > 0

\* the last row of the snapshot with the identity key of `row`
LastWithKey(rows, row) ==
    rows[CHOOSE i \in 1..Len(rows) :
             /\ KeyOf(rows[i]) = KeyOf(row)
             /\ \A j \in (i + 1)..Len(rows) : KeyOf(rows[j]) # KeyOf(row)]

\* C19: after a poll with a non-empty previous snapshot, a shown current row
\* whose identity key occurs in the previous snapshot, also more than once,
\* is untagged (unchanged) if it equals the last previous row with that key
\* and tagged changed otherwise.
C19_LastRowWins ==
    (AfterPoll /\ Len(previous_data) > 0) =>
        \A i \in CurrentItems :
            KeyOf(tree[i].values) \in KeysOf(previous_data) =>
                tree[i].tags =
                    IF tree[i].values = LastWithKey(previous_data, tree[i].values)
                    THEN "" ELSE "changed"

\* the row is the error placeholder of a failed poll
IsErrorRow(row) == row[1] = PyStr(ErrorText) /\ row[2] = PyStr(<<>>)

\* the previous poll took the except branch: previous_data is its placeholder
AfterFailedThenPoll ==
    /\ AfterPoll
    /\ Len(previous_data) = 1
    /\ IsErrorRow(previous_data[1])

\* C21: after a successful poll that follows a failed one, displayed_data
\* holds no tombstone of the error placeholder, and no shown row is tagged
\* added.
C21_PlaceholderIgnored ==
    AfterFailedThenPoll =>
        /\ \A i \in 1..Len(displayed_data) :
               ~IsTombstoneOf(displayed_data[i], previous_data[1])
        /\ \A i \in 1..Len(tree) : tree[i].tags # "added"

\* the records of the latest poll that have a local address, in source order
SourceRecords == SelectSeq(last_conns, LAMBDA conn : HasAddr(conn.laddr))

\* the row shows the addresses, the pid and the codes of the record
IsRowOf(row, conn) ==
    /\ row[2] = conn.pid
    /\ row[3] = conn.laddr[1]
    /\ row[4] = conn.laddr[2]
    /\ row[5] = RemoteIP(conn)
    /\ row[6] = RemotePort(conn)
    /\ row[8] = NormalizeStatus(conn.status)
    /\ row[9] = PyStr(FamilyName(conn.family))
    /\ row[10] = PyStr(SocketKindName(conn.type))

\* a is b with some elements left out, the others in their order
RECURSIVE IsSubsequence(_, _)
IsSubsequence(a, b) ==
    IF Len(a) = 0 THEN TRUE
    ELSE IF Len(b) = 0 THEN FALSE
    ELSE IF Head(a) = Head(b) THEN IsSubsequence(Tail(a), Tail(b))
    ELSE IsSubsequence(a, Tail(b))

\* C11: right after a successful poll displayed_data is the rows of the
\* current snapshot, one per enumerated record with a local address and in
\* the order of enumeration, followed by the tombstones and nothing else;
\* the shown rows are all of displayed_data when the filter is empty and an
\* order-preserving subsequence of it when a filter is active.
C11_DisplayOrder ==
    AfterPoll =>
        /\ Len(connection_data) = Len(SourceRecords)
        /\ \A i \in 1..Len(connection_data) :
               IsRowOf(connection_data[i], SourceRecords[i])
        /\ SubSeq(displayed_data, 1, Len(connection_data)) = connection_data
        /\ Len(EmittedTombstones) = Len(GoneRows)
        /\ \A i \in 1..Len(EmittedTombstones) :
               IsDeletedRow(EmittedTombstones[i])
        /\ IsSubsequence(ShownRows, displayed_data)
        /\ Len(current_filter) = 0 => ShownRows = displayed_data

\* a poll that found two different connections and emitted a tombstone,
\* with a filter active that shows some of these rows and hides others
C11_Witness ==
    /\ AfterPoll
    /\ Len(current_filter) > 0
    /\ Len(connection_data) = 2
    /\ connection_data[1] # connection_data[2]
    /\ Len(EmittedTombstones) > 0
    /\ Len(ShownRows) > 0
    /\ Len(ShownRows) < Len(displayed_data)

----------------------------------------------------------------------------
(* Properties of the handlers in any order, checked under Spec *)

\* C3: a tombstone lasts exactly until the purge callback of the poll that
\* emitted it runs: once that callback has run no tombstone is left in
\* displayed_data or among the shown rows, whatever filter edits and sorts
\* follow; and until it runs every tombstone the poll emitted is still in
\* displayed_data.
C3_TombstoneOneCycle ==
    /\ purge_fired =>
           /\ \A i \in 1..Len(displayed_data) : ~IsDeletedRow(displayed_data[i])
           /\ \A i \in 1..Len(tree) : ~IsDeletedRow(tree[i].values)
    /\ (~purge_fired /\ ~poll_failed) =>
           Len(displayed_data) = Len(connection_data) + Len(GoneRows)

\* the term matches the row: a key:value term with a recognized key when the
\* cell of that column contains value, a bare term when the joined row text
\* contains it; a term with an unrecognized key restricts nothing
TermMatches(row, term) ==
    IF Contains(<<":">>, term)
    THEN LET c == FirstColon(term)
             key == SubSeq(term, 1, c - 1)
             value == SubSeq(term, c + 1, Len(term))
         IN  key \in DOMAIN ColumnMapping =>
                 Contains(value, Lower(Str(row[ColumnMapping[key] + 1])))
    ELSE Contains(term, JoinLower(row))

\* the row matches every whitespace-separated term of the filter string
MatchesEveryTerm(row, filter_str) ==
    \A k \in 1..Len(Split(Lower(filter_str))) :
        TermMatches(row, Split(Lower(filter_str))[k])

\* C4: after an edit of the filter box the shown rows are exactly the rows of
\* displayed_data that match every term of the filter string, in order; the
\* empty filter shows every row.
C4_FilterIsConjunction ==
    last_op.op = "filter" =>
        ShownRows =
            SelectSeq(displayed_data,
                      LAMBDA r : MatchesEveryTerm(r, current_filter))

\* the number of times the row occurs in the sequence
Count(rows, r) == Cardinality({i \in 1..Len(rows) : rows[i] = r})

\* C7: after a sort with a filter active the shown rows are exactly the rows
\* of displayed_data that match the filter, reordered.
C7_SortKeepsFilter ==
    (last_op.op = "sort" /\ Len(current_filter) > 0) =>
        \A r \in Range(ShownRows) \cup Range(displayed_data) :
            Count(ShownRows, r) =
                Count(FilterRows(displayed_data, current_filter), r)

\* C8: after a poll whose enumeration failed the shown rows are the error
\* placeholder alone, whatever the filter text and the previous snapshot.
C8_ErrorRowShown ==
    last_op.op = "poll_failed" => ShownRows = <<ErrorRow(sDenied)>>

\* C20: once the _remove_highlighting callback that the latest poll
\* scheduled has run, no shown row is tagged added or changed until the
\* next poll, whatever edits of the filter box and clicks on column headers
\* follow.
C20_NoHighlightAfterPurge ==
    purge_fired =>
        \A i \in 1..Len(tree) : tree[i].tags \notin {"added", "changed"}

----------------------------------------------------------------------------
(* Properties of the auto-refresh timer, checked under SpecRefresh *)

\* C12: while auto-refresh is disabled no _auto_refresh_callback timer is
\* pending, and no step taken while it is disabled is a poll run by such a
\* timer, for any sequence of toggles and timer firings.
C12_DisabledMeansNoPoll ==
    /\ [](~auto_refresh_enabled => refresh_timers = {})
    /\ [][~auto_refresh_enabled =>
              last_op'.op \notin {"auto_poll", "auto_poll_failed"}]_vars

\* auto-refresh was switched off by the last click, after a timer had run a
\* poll (the constructor's poll has no previous snapshot)
C12_Witness ==
    /\ ~auto_refresh_enabled
    /\ last_op.op = "toggle"
    /\ Len(previous_data) > 0
    /\ Len(connection_data) > 0

\* the values of last_op.op that a step of _auto_refresh_callback leaves
CallbackOps == {"auto_poll", "auto_poll_failed", "auto_skip"}

\* C22: between events at most one _auto_refresh_callback timer is pending,
\* and one is pending exactly when auto-refresh is enabled; a callback that
\* runs while auto-refresh is enabled runs update_connections once (the
\* snapshot it diffs against is the data of just before the callback) and
\* leaves exactly one pending timer, a new one held in auto_refresh_job.
C22_OnePendingPoll ==
    /\ [](/\ Cardinality(refresh_timers) <= 1
          /\ (refresh_timers # {} <=> auto_refresh_enabled))
    /\ [][(auto_refresh_enabled /\ last_op'.op \in CallbackOps) =>
              /\ last_op'.op \in {"auto_poll", "auto_poll_failed"}
              /\ previous_data' = connection_data
              /\ poll_failed' = (last_op'.op = "auto_poll_failed")
              /\ auto_refresh_enabled'
              /\ refresh_timers' = {auto_refresh_job'}
              /\ auto_refresh_job' \notin refresh_timers]_vars

\* the successor that a callback scheduled has itself run a poll and has
\* scheduled its own successor (the toggle's timer is 1, its successor is
\* 2, and the successor of that one is 1 again)
C22_Witness ==
    /\ auto_refresh_enabled
    /\ last_op.op = "auto_poll"
    /\ refresh_timers = {auto_refresh_job}
    /\ auto_refresh_job = 1
    /\ Len(previous_data) > 0

----------------------------------------------------------------------------
(* Properties of the filter terms, checked under SpecFilter *)

\* the ten recognized keys and the 0-based column each stands for
KeyColumn ==
    ( <<"n", "a", "m", "e">> :> 0 ) @@ ( <<"p", "i", "d">> :> 1 ) @@
    ( <<"l", "i", "p">> :> 2 ) @@ ( <<"l", "p", "o", "r", "t">> :> 3 ) @@
    ( <<"r", "i", "p">> :> 4 ) @@ ( <<"r", "p", "o", "r", "t">> :> 5 ) @@
    ( <<"h", "o", "s", "t">> :> 6 ) @@
    ( <<"s", "t", "a", "t", "u", "s">> :> 7 ) @@
    ( <<"f", "a", "m", "i", "l", "y">> :> 8 ) @@ ( <<"t", "y", "p", "e">> :> 9 )

\* the part of a key:value term before its first colon, lower-cased
TermKey(term) == Lower(SubSeq(term, 1, FirstColon(term) - 1))

\* the part of a key:value term after its first colon, lower-cased
TermValue(term) == Lower(SubSeq(term, FirstColon(term) + 1, Len(term)))

\* the term is key:value with a key that is none of the ten
HasUnknownKey(term) ==
    Contains(<<":">>, term) /\ TermKey(term) \notin DOMAIN KeyColumn

\* the terms separated by single spaces
RECURSIVE Join(_)
Join(terms) ==
    IF Len(terms) = 0 THEN <<>>
    ELSE IF Len(terms) = 1 THEN terms[1]
    ELSE terms[1] \o <<" ">> \o Join(Tail(terms))

\* the filter string without its terms with an unrecognized key
WithoutUnknownTerms(filter_str) ==
    Join(SelectSeq(Split(filter_str), LAMBDA term : ~HasUnknownKey(term)))

\* the rows of displayed_data that _apply_filter shows for the filter string
ShownFor(filter_str) ==
    IF Len(filter_str) = 0 THEN displayed_data
    ELSE FilterRows(displayed_data, filter_str)

\* C15: after an edit of the filter box the shown rows are the rows shown
\* for the filter string with every term with an unrecognized key taken
\* out; a filter string of such terms alone shows every row.
C15_UnknownKeyDropped ==
    last_op.op = "filter" =>
        /\ ShownRows = ShownFor(WithoutUnknownTerms(current_filter))
        /\ (\A k \in 1..Len(Split(current_filter)) :
                HasUnknownKey(Split(current_filter)[k]))
               => ShownRows = displayed_data

\* the filter x:y rport:44 hides one of three rows, the filter foo:bar none
C15_Witness ==
    /\ last_op.op = "filter"
    /\ current_filter = fUnknownRport
    /\ Len(displayed_data) = 3
    /\ Len(ShownRows) = 2
    /\ ShownFor(fUnknown) = displayed_data

\* the filter string is one key:value term with a recognized key
IsOneKeyTerm(filter_str) ==
    /\ Len(Split(filter_str)) = 1
    /\ Contains(<<":">>, filter_str)
    /\ TermKey(filter_str) \in DOMAIN KeyColumn

\* the lower-cased text of the cell of the row in the 0-based column
CellText(row, column) == Lower(Str(row[column + 1]))

\* C16: after the filter box is set to one term key:value with a recognized
\* key, a row of displayed_data is shown if and only if the lower-cased
\* value is a substring of the lower-cased text of its cell in the column
\* the key stands for (name 0, pid 1, lip 2, lport 3, rip 4, rport 5, host 6,
\* status 7, family 8, type 9); the shown rows keep their order.
C16_KeyTermContains ==
    (last_op.op = "filter" /\ IsOneKeyTerm(current_filter)) =>
        ShownRows =
            SelectSeq(displayed_data,
                      LAMBDA row :
                          Contains(TermValue(current_filter),
                                   CellText(row,
                                            KeyColumn[TermKey(current_filter)])))

\* the filter rport:44 shows a row with remote port 443 and a row with remote
\* port 8044 and hides a row without a remote port
C16_Witness ==
    /\ last_op.op = "filter"
    /\ current_filter = Strip(fRport)
    /\ \E i \in 1..Len(tree) : tree[i].values[6] = PyInt(443)
    /\ \E i \in 1..Len(tree) : tree[i].values[6] = PyInt(8044)
    /\ \E i \in 1..Len(displayed_data) :
         /\ displayed_data[i][6] = PyStr(<<>>)
         /\ displayed_data[i] \notin Range(ShownRows)

----------------------------------------------------------------------------
(* Properties of the hostname resolver, checked under SpecResolve *)

\* this step is a call of _resolve_hostname
ResolveStep == last_op'.op = "resolve" /\ last_resolve'.called

\* C13: socket.gethostbyaddr is called at most once per address for the
\* lifetime of the viewer; every address looked up has a cache entry, which
\* never changes afterwards and is empty when the lookup failed; and a
\* resolve of an address looked up before returns that entry without a
\* further lookup, whatever reverse DNS would answer now.
C13_LookupOnce ==
    /\ [](/\ \A i, j \in 1..Len(dns_calls) :
                 dns_calls[i] = dns_calls[j] => i = j
          /\ Range(dns_calls) \subseteq DOMAIN hostname_cache)
    /\ [][/\ \A ip \in DOMAIN hostname_cache :
                /\ ip \in DOMAIN hostname_cache'
                /\ hostname_cache'[ip] = hostname_cache[ip]
          /\ (ResolveStep /\ last_resolve'.ip \in Range(dns_calls)) =>
                /\ last_resolve'.hostname = hostname_cache[last_resolve'.ip]
                /\ dns_calls' = dns_calls
          /\ (ResolveStep /\ dns_calls' # dns_calls) =>
                /\ dns_calls' = Append(dns_calls, last_resolve'.ip)
                /\ hostname_cache'[last_resolve'.ip] = last_resolve'.hostname
                /\ (last_resolve'.answer = <<"fail">> =>
                       last_resolve'.hostname = <<>>)]_vars

\* an address whose lookup failed is resolved again when reverse DNS would
\* answer: the call returns the empty cached value without a lookup, and a
\* second address has been looked up as well
C13_Witness ==
    /\ last_op.op = "resolve"
    /\ last_resolve.ip \in Range(dns_calls)
    /\ last_resolve.lookups = 0
    /\ last_resolve.answer = <<"ok", sDnsName>>
    /\ last_resolve.hostname = <<>>
    /\ Len(dns_calls) = 2

\* the address is empty, the loopback or the unspecified address of IPv4 or
\* IPv6, the text localhost, or begins with one of the four prefixes
IsShortCircuit(ip) ==
    \/ ip \in {<<>>, sLoopback, sLoopback6, sAny, sAny6, sLocalhost}
    \/ StartsWith(ip, <<"1", "9", "2", ".", "1", "6", "8", ".">>)
    \/ StartsWith(ip, <<"1", "0", ".">>)
    \/ StartsWith(ip, <<"1", "7", "2", ".">>)
    \/ StartsWith(ip, <<"1", "6", "9", ".", "2", "5", "4", ".">>)

----------------------------------------------------------------------------
(* Properties of the sort, checked under SpecSort *)

Reverse(s) == [i \in 1..Len(s) |-> s[Len(s) + 1 - i]]

KeysBy(rows, col) == [i \in 1..Len(rows) |-> SortKey(rows[i], col)]

AscendingBy(rows, col) ==
    \A i, j \in 1..Len(rows) :
        i < j => ~KeyLess(SortKey(rows[j], col), SortKey(rows[i], col), col)

DescendingBy(rows, col) ==
    \A i, j \in 1..Len(rows) :
        i < j => ~KeyLess(SortKey(rows[i], col), SortKey(rows[j], col), col)

\* this step is a click on the header of col that has rows to sort
SortStep(col) ==
    /\ last_op'.op = "sort"
    /\ last_op'.col = col
    /\ Len(DataToSort) > 0

\* this step is the second of two clicks in a row on the header of col
SecondSortStep(col) ==
    /\ SortStep(col)
    /\ last_op.op = "sort"
    /\ last_op.col = col

\* C5: a click on a column that is not the selected one (its header shows no
\* indicator) sorts ascending, a click on the selected column flips its
\* direction, the rows are shown in the direction the header indicates, and
\* the indicators of all other columns are cleared.
C5_SortDirection ==
    [][\A col \in SortColumns :
         SortStep(col) =>
             /\ heading'[col] = IF heading[col] = "up" THEN "down" ELSE "up"
             /\ heading'[col] = "up" => AscendingBy(ShownRows', col)
             /\ heading'[col] = "down" => DescendingBy(ShownRows', col)
             /\ \A other \in ColumnSet \ {col} : heading'[other] = ""]_vars

\* C6 as stated: the second of two sorts in a row on one column shows exactly
\* the reverse of the row sequence the first showed, also when rows have
\* equal sort keys.
C6_SecondSortReverses ==
    [][\A col \in SortColumns :
         SecondSortStep(col) => ShownRows' = Reverse(ShownRows)]_vars

\* the rows with the sort key k, in order
WithKey(rows, col, k) == SelectSeq(rows, LAMBDA r : SortKey(r, col) = k)

\* C6 amended: the second of two sorts in a row on one column shows the rows
\* with their sort keys in the reverse order of the first: exactly the
\* reverse row sequence when no two rows have equal sort keys, while rows
\* with equal sort keys keep, in both results, the relative order they have
\* in the sorted data.
C6_SecondSortReversesKeys ==
    [][\A col \in SortColumns :
         SecondSortStep(col) =>
             /\ KeysBy(ShownRows', col) = Reverse(KeysBy(ShownRows, col))
             /\ (\A i, j \in 1..Len(ShownRows) :
                    SortKey(ShownRows[i], col) = SortKey(ShownRows[j], col)
                        => i = j)
                    => ShownRows' = Reverse(ShownRows)
             /\ \A r \in Range(DataToSort) :
                    /\ WithKey(ShownRows, col, SortKey(r, col))
                           = WithKey(DataToSort, col, SortKey(r, col))
                    /\ WithKey(ShownRows', col, SortKey(r, col))
                           = WithKey(DataToSort, col, SortKey(r, col))]_vars

\* one column sorted twice in a row, over rows of which two different ones
\* have equal sort keys and two have different sort keys
C6_Witness ==
    /\ last_op.op = "sort"
    /\ last_op.twice
    /\ \E i, j \in 1..Len(tree) :
         /\ tree[i].values # tree[j].values
         /\ SortKey(tree[i].values, last_op.col)
                = SortKey(tree[j].values, last_op.col)
    /\ \E i, j \in 1..Len(tree) :
         SortKey(tree[i].values, last_op.col)
             # SortKey(tree[j].values, last_op.col)

----------------------------------------------------------------------------
(* Properties of the numeric sort, checked under SpecNumSort *)

\* the integer a pid or port cell stands for: its value when its text is all
\* digits, 0 when it is empty, None or anything else
CellInt(v) ==
    IF IsInt(v) /\ v[2] >= 0 THEN v[2]
    ELSE IF IsStr(v) /\ IsDigit(v[2]) THEN ParseInt(v[2])
    ELSE 0

\* the integers of the cells of the column, in the order shown
ShownInts(col) ==
    [i \in 1..Len(ShownRows) |-> CellInt(ShownRows[i][ColIndex(col)])]

\* C17: after a sort by the pid, local-port or remote-port column the shown
\* rows are ordered by the integer of the cell, non-decreasing when the
\* header shows ascending and non-increasing when it shows descending, a
\* cell that is empty, None or not all digits counting as 0; the sort shows
\* every row it was given.
C17_NumericSort ==
    (last_op.op = "sort" /\ last_op.col \in NumericColumns
                        /\ heading[last_op.col] # "") =>
        LET ints == ShownInts(last_op.col)
        IN  /\ Len(ShownRows) = Len(DataToSort)
            /\ heading[last_op.col] = "up" =>
                   \A i, j \in 1..Len(ints) : i < j => ints[i] <= ints[j]
            /\ heading[last_op.col] = "down" =>
                   \A i, j \in 1..Len(ints) : i < j => ints[i] >= ints[j]

\* local ports 9, 10 and 2 shown as 2, 9, 10 under an ascending header,
\* among rows whose pid is None and whose remote port is absent
C17_Witness ==
    /\ last_op.op = "sort"
    /\ last_op.col = "LocalPort"
    /\ heading["LocalPort"] = "up"
    /\ ShownInts("LocalPort") = <<2, 9, 10>>
    /\ \E i \in 1..Len(ShownRows) :
         ShownRows[i][2] = PyNone /\ ShownRows[i][6] = PyStr(<<>>)

----------------------------------------------------------------------------
(* Properties of the snapshot builder, checked under SpecBuild *)

\* this step is a successful poll that enumerates the records the latest
\* poll enumerated, which was successful too
RebuildStep ==
    /\ ~poll_failed
    /\ last_op'.op = "poll"
    /\ last_conns' = last_conns

====
